---- MODULE Spec2Model ----
(***************************************************************************)
(* vstats: the agent's network rate tracker (MetricsCollector) and the     *)
(* server's tiered time-series store (metrics_raw / metrics_hourly /       *)
(* metrics_daily in SQLite).                                               *)
(***************************************************************************)
EXTENDS Integers, Sequences, FiniteSets, TLC

VARIABLES
    \* agent: MetricsCollector (src/agent/src/metrics.rs)
    last_network_rx, last_network_tx, last_network_time,
    instant,          \* reading of the monotonic clock (std::time::Instant), in ms
    reports,          \* the NetworkMetrics returned by collect_network, in call order
    networks,         \* sysinfo::Networks: per interface, the counters as last refreshed
    gateway_ip,           \* Option<String>: the detected default gateway
    ping_results,         \* Arc<Mutex<Option<PingMetrics>>>: the value in the slot
    custom_ping_targets,  \* Arc<Mutex<Option<Vec<PingTargetConfig>>>>: the value
    ping_results_lock,    \* who holds the Mutex of ping_results: "free" or "probe"
    custom_targets_lock,  \* who holds the Mutex of custom_ping_targets
    pc,               \* where the background ping thread stands in its loop
    cycle,            \* how many iterations of the loop have started
    custom_targets,   \* the thread's clone of custom_ping_targets
    target_index,     \* collect_ping_with_targets: the list element it is at
    targets,          \* collect_ping_with_targets: the Vec<PingTarget> it builds
    batches,          \* the PingMetrics of the iterations that have published, in order
    snapshot,         \* the SystemMetrics the last collect returned
    \* server: the SQLite database behind AppState::db (src/server/src/db.rs)
    now,              \* reading of the wall clock (Utc::now())
    ticks,            \* how often the wall clock has been advanced
    metrics_raw, metrics_hourly, metrics_daily,
    result,           \* what the last store operation returned: "none", "ok", "err"
    \* server: AppState (src/server/src/state.rs)
    agent_connections,    \* HashMap<String, AgentCommandSender>: server_id -> channel
    connected,            \* the agents whose connection is up
    send_result,          \* what the last send of a command returned
    dropped_by_send,      \* the agents whose entry a failed send has removed
    once_registered,      \* the server_ids that have had an entry
    failure_seen,         \* the failure returned for a server_id without entry, by its past
    metrics_tx,           \* broadcast::Sender<String>: all messages sent, oldest first
    subscribers,          \* the broadcast::Receiver of each viewer that has subscribed
    publish_result,       \* what the last metrics_tx.send returned
    db_guard,             \* who holds the Mutex of db (Mutex<Connection>)
    inbox,                \* per agent: the snapshots received and not yet stored
    received_count,       \* per agent: how many snapshots have been received
    job                   \* the maintenance job that holds or waits for db, or "none"

rateVars == <<last_network_rx, last_network_tx, last_network_time, instant, reports,
              networks>>
probeThreadVars == <<pc, cycle, custom_targets, target_index, targets, batches>>
probeVars == <<gateway_ip, ping_results, custom_ping_targets, ping_results_lock,
               custom_targets_lock, probeThreadVars, snapshot>>
agentVars == <<rateVars, probeVars>>
storeVars == <<now, ticks, metrics_raw, metrics_hourly, metrics_daily, result>>
tables == <<metrics_raw, metrics_hourly, metrics_daily>>
registryVars == <<agent_connections, connected, send_result, dropped_by_send,
                  once_registered, failure_seen>>
broadcastVars == <<metrics_tx, subscribers, publish_result>>
ingestVars == <<db_guard, inbox, received_count, job>>
serverVars == <<storeVars, registryVars, broadcastVars, ingestVars>>
vars == <<agentVars, serverVars>>

(***************************************************************************)
(* Generic helpers                                                         *)
(***************************************************************************)
Max(a, b) == IF a >= b THEN a ELSE b

Min(a, b) == IF a <= b THEN a ELSE b

Range(s) == {s[i] : i \in DOMAIN s}

RECURSIVE SumOf(_)
SumOf(s) == IF s = <<>> THEN 0 ELSE Head(s) + SumOf(Tail(s))

(***************************************************************************)
(* RateTracker: MetricsCollector::collect_network                          *)
(***************************************************************************)
\* `elapsed_secs > 0.1`: the threshold, in milliseconds
MIN_ELAPSED_MS == 100

MS_PER_SEC == 1000

\* bounds of the agent model
MaxReports == 3

\* cumulative byte totals the OS may report (they can go down: counter reset)
RxTotals == {400, 900, 1000, 1500}

TxTotals == {200, 700}

\* time between two calls of collect_network, in ms
ElapsedChoices == {50, 100, 150, 1000}

\* u64::saturating_sub
saturating_sub(a, b) == IF a >= b THEN a - b ELSE 0

\* `if elapsed_secs > 0.1`
enough_time_passed(elapsed_ms) == elapsed_ms > MIN_ELAPSED_MS

\* (mutation of per_second: the byte difference reported as if one second had passed)
per_second_undivided(diff, elapsed_ms) == diff

\* `(diff as f64 / elapsed_secs) as u64`: the cast truncates toward zero
per_second(diff, elapsed_ms) == (diff * MS_PER_SEC) \div elapsed_ms

\* (mutation of speed_of: the difference taken without regard to its sign)
speed_of_abs_diff(total, last, elapsed_ms) ==
    per_second(IF total >= last THEN total - last ELSE last - total, elapsed_ms)

\* one direction of the speed calculation of an accepted observation
speed_of(total, last, elapsed_ms) ==
    LET diff == saturating_sub(total, last)
    IN  IF total >= last THEN per_second(diff, elapsed_ms) ELSE 0

\* (mutation of tracking_after: the baseline advanced on every call)
tracking_always_advanced(total_rx, total_tx, at, elapsed_ms) == <<total_rx, total_tx, at>>

\* the baseline an observation leaves behind: <<rx, tx, time>>
tracking_after(total_rx, total_tx, at, elapsed_ms) ==
    IF enough_time_passed(elapsed_ms)
    THEN <<total_rx, total_tx, at>>
    ELSE <<last_network_rx, last_network_tx, last_network_time>>

\* (mutation of speeds_of: a counter reset in either direction zeroes both)
speeds_zeroed_together(total_rx, total_tx, elapsed_ms) ==
    IF enough_time_passed(elapsed_ms)
         /\ total_rx >= last_network_rx /\ total_tx >= last_network_tx
    THEN <<per_second(total_rx - last_network_rx, elapsed_ms),
           per_second(total_tx - last_network_tx, elapsed_ms)>>
    ELSE <<0, 0>>

\* the pair (rx_speed, tx_speed) an observation reports
speeds_of(total_rx, total_tx, elapsed_ms) ==
    IF enough_time_passed(elapsed_ms)
    THEN <<speed_of(total_rx, last_network_rx, elapsed_ms),
           speed_of(total_tx, last_network_tx, elapsed_ms)>>
    ELSE <<0, 0>>

\* the interfaces of the host, in the order sysinfo lists them
Interfaces == <<"docker0", "eth0", "lo">>

\* the counters the OS may report for them (`total_received`,
\* `total_transmitted`)
NetworkReadings ==
    { [name \in Range(Interfaces) |->
          CASE name = "eth0" -> [rx |-> rx, tx |-> tx]
            [] name = "lo" -> [rx |-> lo, tx |-> lo]
            [] OTHER -> [rx |-> 70, tx |-> 30]] :
      rx \in {1000, 1500}, tx \in {200, 700}, lo \in {0, 40} }

\* the Networks of a host whose only interface is a physical one
one_physical(rx, tx) == [name \in {"eth0"} |-> [rx |-> rx, tx |-> tx]]

\* is_physical_interface: not the loopback, no virtual prefix, no device
\* under /sys/devices/virtual/net
is_physical_interface(name) ==
    /\ name \notin {"lo", "lo0"}
    /\ name \notin {"docker0"}

\* the interfaces that `nets` lists, in the order of Interfaces
listed(nets) == SelectSeq(Interfaces, LAMBDA name : name \in DOMAIN nets)

\* MetricsCollector::new: (init_rx, init_tx), the fold over `networks.iter()`
init_totals(nets) ==
    LET all == listed(nets)
    IN  <<SumOf([i \in DOMAIN all |-> nets[all[i]].rx]),
          SumOf([i \in DOMAIN all |-> nets[all[i]].tx])>>

\* collect_network: (total_rx, total_tx), the sums over the interfaces that
\* pass the filter
physical_totals(nets) ==
    LET physical == SelectSeq(listed(nets), is_physical_interface)
    IN  <<SumOf([i \in DOMAIN physical |-> nets[physical[i]].rx]),
          SumOf([i \in DOMAIN physical |-> nets[physical[i]].tx])>>

\* MetricsCollector::new: the baseline is the totals read at construction, here
\* on a host whose only interface is a physical one
AgentInit ==
    /\ last_network_rx \in RxTotals
    /\ last_network_tx \in TxTotals
    /\ last_network_time = 0
    /\ instant = 0
    /\ reports = <<>>
    /\ networks = one_physical(last_network_rx, last_network_tx)

\* collect_network, called dt ms after the previous call, the OS reporting
\* the totals total_rx and total_tx: what it does to the collector
collect_network_step(total_rx, total_tx, dt) ==
    LET at == instant + dt
        elapsed_ms == at - last_network_time
        speeds == speeds_of(total_rx, total_tx, elapsed_ms)
        tracking == tracking_after(total_rx, total_tx, at, elapsed_ms)
    IN  /\ Len(reports) < MaxReports
        /\ instant' = at
        /\ last_network_rx' = tracking[1]
        /\ last_network_tx' = tracking[2]
        /\ last_network_time' = tracking[3]
        /\ reports' = Append(reports,
                [total_rx |-> total_rx, total_tx |-> total_tx,
                 rx_speed |-> speeds[1], tx_speed |-> speeds[2],
                 at |-> at])

\* collect_network on its own
collect_network(total_rx, total_tx, dt) ==
    /\ collect_network_step(total_rx, total_tx, dt)
    /\ networks' = one_physical(total_rx, total_tx)
    /\ UNCHANGED probeVars
    /\ UNCHANGED serverVars

CollectNetwork ==
    \E total_rx \in RxTotals, total_tx \in TxTotals, dt \in ElapsedChoices :
        collect_network(total_rx, total_tx, dt)

(***************************************************************************)
(* LatencyProbe: the background ping thread of MetricsCollector::new, the  *)
(* two Mutex slots it shares with set_ping_targets and collect             *)
(***************************************************************************)
\* Option<T>
None == <<>>

Some(x) == <<x>>

\* bounds of the probe model
MaxCycles == 2

DEFAULT_PING_TARGETS ==
    << [name |-> "Google DNS", host |-> "8.8.8.8"],
       [name |-> "Cloudflare", host |-> "1.1.1.1"],
       [name |-> "Local Gateway", host |-> ""] >>

\* what detect_gateway may have found
GatewayChoices == {None, Some("192.168.1.1")}

\* the Vec<PingTargetConfig> the server may push
TargetLists ==
    { <<>>,
      <<[name |-> "a", host |-> "10.0.0.1"]>>,
      <<[name |-> "b", host |-> ""]>>,
      <<[name |-> "b", host |-> ""], [name |-> "a", host |-> "10.0.0.1"]>> }

\* what one run of the `ping` command may give: whether the command could be
\* run at all (`Ok(output)`), its exit status, the percentage on the line of
\* its output that mentions "loss" (None: no such line; Some(None): a line
\* with no word that parses as a percentage), and the average parsed from its
\* statistics line
PingOutputs ==
    { [ran |-> TRUE, success |-> TRUE, loss_line |-> Some(Some(0)),
       latency |-> Some(20)],
      [ran |-> TRUE, success |-> FALSE, loss_line |-> Some(Some(100)),
       latency |-> None],
      [ran |-> FALSE, success |-> FALSE, loss_line |-> None, latency |-> None] }

\* every kind of output ping_host tells apart
AllPingOutputs ==
    [ran : BOOLEAN, success : BOOLEAN,
     loss_line : {None, Some(None), Some(Some(0)), Some(Some(33)), Some(Some(100))},
     latency : {None, Some(20)}]

\* ping_host with a status that goes by the exit status of the command
ping_host_by_exit_status(output) ==
    IF output.ran
    THEN [latency_ms |-> output.latency,
          packet_loss |-> IF output.success THEN 0 ELSE 100,
          status |-> IF output.success THEN "ok" ELSE "error"]
    ELSE [latency_ms |-> None, packet_loss |-> 100, status |-> "error"]

\* ping_host: (latency, packet_loss, status)
ping_host(output) ==
    IF output.ran
    THEN LET packet_loss ==
               IF output.loss_line # None
               THEN (IF output.loss_line[1] # None THEN output.loss_line[1][1] ELSE 0)
               ELSE (IF output.success THEN 0 ELSE 100)
         IN  [latency_ms |-> output.latency,
              packet_loss |-> packet_loss,
              status |-> IF packet_loss >= 100 THEN "timeout" ELSE "ok"]
    ELSE [latency_ms |-> None, packet_loss |-> 100, status |-> "error"]

\* MetricsCollector::new: both slots hold None, the thread is about to start
\* its first iteration
ProbeInit ==
    /\ gateway_ip \in GatewayChoices
    /\ ping_results = None
    /\ custom_ping_targets = None
    /\ ping_results_lock = "free"
    /\ custom_targets_lock = "free"
    /\ pc = "loop"
    /\ cycle = 0
    /\ custom_targets = None
    /\ target_index = 1
    /\ targets = <<>>
    /\ batches = <<>>
    /\ snapshot = None

\* (mutation of guard_after_statement: the guard bound to a variable that
\* lives on to the end of the iteration)
guard_kept(holder) == holder

\* the MutexGuard is a temporary of the statement that locks: it is dropped,
\* and the Mutex released, when the statement ends
guard_after_statement(holder) == "free"

\* ---- the loop of the thread ----
\* `custom_targets_clone.lock()`: a new iteration starts (after the sleep of
\* the one before)
probe_lock_targets ==
    /\ pc = "loop"
    /\ cycle < MaxCycles
    /\ custom_targets_lock = "free"
    /\ custom_targets_lock' = "probe"
    /\ cycle' = cycle + 1
    /\ pc' = "clone_targets"
    /\ UNCHANGED <<custom_targets, target_index, targets, batches>>
    /\ UNCHANGED <<gateway_ip, ping_results, custom_ping_targets, ping_results_lock, snapshot>>
    /\ UNCHANGED <<rateVars, serverVars>>

\* `.ok().and_then(|guard| guard.clone())`, then the call of
\* collect_ping_with_targets with `let mut targets = Vec::new()`
probe_clone_targets ==
    /\ pc = "clone_targets"
    /\ custom_targets' = custom_ping_targets
    /\ custom_targets_lock' = guard_after_statement("probe")
    /\ target_index' = 1
    /\ targets' = <<>>
    /\ pc' = "ping"
    /\ UNCHANGED <<cycle, batches>>
    /\ UNCHANGED <<gateway_ip, ping_results, custom_ping_targets, ping_results_lock, snapshot>>
    /\ UNCHANGED <<rateVars, serverVars>>

\* collect_ping_with_targets: the list it iterates over
target_list_of(custom) == IF custom # None THEN custom[1] ELSE DEFAULT_PING_TARGETS

\* the host it pings for a list element, or None when it skips the element
\* (`continue`): a custom target with an empty host, the default gateway
\* entry when no gateway is known
actual_host_of(custom, gateway, element) ==
    IF custom # None
    THEN (IF element.host = "" THEN None ELSE Some(element.host))
    ELSE (IF element.host = "" THEN gateway ELSE Some(element.host))

\* (mutation of probe_ping: a ping command that cannot be run makes
\* collect_ping_with_targets return what it has so far)
probe_ping_aborting(output) ==
    /\ pc = "ping"
    /\ target_index <= Len(target_list_of(custom_targets))
    /\ LET element == target_list_of(custom_targets)[target_index]
           actual_host == actual_host_of(custom_targets, gateway_ip, element)
           pinged == ping_host(output)
       IN  /\ targets' =
                IF actual_host = None \/ ~output.ran THEN targets
                ELSE Append(targets,
                       [name |-> element.name, host |-> actual_host[1],
                        latency_ms |-> pinged.latency_ms,
                        packet_loss |-> pinged.packet_loss,
                        status |-> pinged.status,
                        cycle |-> cycle])
           /\ target_index' =
                IF actual_host # None /\ ~output.ran
                THEN Len(target_list_of(custom_targets)) + 1
                ELSE target_index + 1
    /\ UNCHANGED <<pc, cycle, custom_targets, batches>>
    /\ UNCHANGED <<gateway_ip, ping_results, custom_ping_targets, ping_results_lock,
                   custom_targets_lock, snapshot>>
    /\ UNCHANGED <<rateVars, serverVars>>

\* collect_ping_with_targets: one turn of its for loop; the ping command, if
\* run, gives `output` (a command that hangs never lets this step happen)
probe_ping(output) ==
    /\ pc = "ping"
    /\ target_index <= Len(target_list_of(custom_targets))
    /\ LET element == target_list_of(custom_targets)[target_index]
           actual_host == actual_host_of(custom_targets, gateway_ip, element)
           pinged == ping_host(output)
       IN  targets' =
             IF actual_host = None THEN targets
             ELSE Append(targets,
                    [name |-> element.name, host |-> actual_host[1],
                     latency_ms |-> pinged.latency_ms,
                     packet_loss |-> pinged.packet_loss,
                     status |-> pinged.status,
                     \* not a field of PingTarget: the iteration that measured it
                     cycle |-> cycle])
    /\ target_index' = target_index + 1
    /\ UNCHANGED <<pc, cycle, custom_targets, batches>>
    /\ UNCHANGED <<gateway_ip, ping_results, custom_ping_targets, ping_results_lock,
                   custom_targets_lock, snapshot>>
    /\ UNCHANGED <<rateVars, serverVars>>

ProbePing == \E output \in PingOutputs : probe_ping(output)

\* collect_ping_with_targets has returned `PingMetrics { targets }`;
\* `ping_results_clone.lock()`
probe_lock_results ==
    /\ pc = "ping"
    /\ target_index > Len(target_list_of(custom_targets))
    /\ ping_results_lock = "free"
    /\ ping_results_lock' = "probe"
    /\ pc' = "replace_results"
    /\ UNCHANGED <<cycle, custom_targets, target_index, targets, batches>>
    /\ UNCHANGED <<gateway_ip, ping_results, custom_ping_targets, custom_targets_lock, snapshot>>
    /\ UNCHANGED <<rateVars, serverVars>>

\* (mutation of slot_after_publish: the new results merged into the batch in
\* the slot, entry by entry)
slot_merged_with(slot, results) ==
    IF slot = None THEN Some(results)
    ELSE LET old == slot[1].targets
             new == results.targets
         IN  Some([targets |->
                [i \in 1..Max(Len(old), Len(new)) |->
                    IF i <= Len(new) THEN new[i] ELSE old[i]]])

\* `*guard = Some(results)`
slot_after_publish(slot, results) == Some(results)

\* `*guard = Some(results)`, the guard dropped at the end of the `if let`,
\* then `thread::sleep(Duration::from_secs(10))`
probe_replace_results ==
    /\ pc = "replace_results"
    /\ ping_results' = slot_after_publish(ping_results, [targets |-> targets])
    /\ batches' = Append(batches, [targets |-> targets])
    /\ ping_results_lock' = "free"
    /\ pc' = "loop"
    /\ UNCHANGED <<cycle, custom_targets, target_index, targets>>
    /\ UNCHANGED <<gateway_ip, custom_ping_targets, custom_targets_lock, snapshot>>
    /\ UNCHANGED <<rateVars, serverVars>>

\* ---- set_ping_targets ----
\* (mutation of targets_to_store: an empty list stored as it is)
targets_stored_as_pushed(list) == Some(list)

\* `if targets.is_empty() { *guard = None } else { *guard = Some(targets) }`
targets_to_store(list) == IF list = <<>> THEN None ELSE Some(list)

\* set_ping_targets(targets): it blocks while the Mutex is held
set_ping_targets(list) ==
    /\ custom_targets_lock = "free"
    /\ custom_ping_targets' = targets_to_store(list)
    /\ UNCHANGED <<gateway_ip, ping_results, ping_results_lock, custom_targets_lock,
                   probeThreadVars, snapshot>>
    /\ UNCHANGED <<rateVars, serverVars>>

SetPingTargets == \E list \in TargetLists : set_ping_targets(list)

\* ---- collect ----
\* the network totals and the spacing of the calls of collect
CollectRxTotals == {1500}

CollectTxTotals == {700}

CollectSpacings == {1000}

\* (mutation of slot_after_collect: the results taken out of the slot)
slot_taken(slot) == None

\* `guard.clone()` leaves the slot as it is
slot_after_collect(slot) == slot

\* collect(): collect_network, then the clone of ping_results (it blocks
\* while the Mutex is held), then the SystemMetrics
collect(total_rx, total_tx, dt) ==
    /\ collect_network_step(total_rx, total_tx, dt)
    /\ networks' = one_physical(total_rx, total_tx)
    /\ ping_results_lock = "free"
    /\ ping_results' = slot_after_collect(ping_results)
    /\ snapshot' = Some([network |-> [total_rx |-> total_rx, total_tx |-> total_tx,
                                      rx_speed |-> reports'[Len(reports')].rx_speed,
                                      tx_speed |-> reports'[Len(reports')].tx_speed],
                         ping |-> ping_results])
    /\ UNCHANGED <<gateway_ip, custom_ping_targets, ping_results_lock, custom_targets_lock,
                   probeThreadVars>>
    /\ UNCHANGED serverVars

Collect ==
    \E total_rx \in CollectRxTotals, total_tx \in CollectTxTotals, dt \in CollectSpacings :
        collect(total_rx, total_tx, dt)

NextProbe ==
    \/ probe_lock_targets
    \/ probe_clone_targets
    \/ ProbePing
    \/ probe_lock_results
    \/ probe_replace_results
    \/ SetPingTargets
    \/ Collect

(***************************************************************************)
(* Wall-clock time and its text forms                                      *)
(*                                                                         *)
(* A point in time is [day, hour, sub]: the day number, the hour of the    *)
(* day, and the place within the hour: 0 = hh:00:00 sharp, 1 = hh:00:00    *)
(* and a fraction of a second, 2 = hh:30:00 and a fraction.                *)
(* A timestamp text is the tuple <<date, separator, hour, minutes and      *)
(* seconds, the character after the seconds>>; SQLite compares TEXT        *)
(* columns byte by byte, which on these tuples is the lexicographic order  *)
(* (dates of a fixed width order like their day numbers).                  *)
(***************************************************************************)
HOURS_PER_DAY == 24

RAW_RETENTION_HOURS == 24

HOURLY_RETENTION_DAYS == 30

\* the characters that decide a comparison, by their byte value
END_OF_TEXT == 0

CH_SPACE == 32

CH_PLUS == 43

CH_DOT == 46

CH_T == 84

CH_Z == 90

\* minutes and seconds of a point in time: 0 = ":00:00", 1 = ":30:00"
MinSec(t) == IF t.sub = 2 THEN 1 ELSE 0

\* chrono: t - Duration::hours(n)
minus_hours(t, n) ==
    LET h == t.day * HOURS_PER_DAY + t.hour - n
    IN  [day |-> h \div HOURS_PER_DAY, hour |-> h % HOURS_PER_DAY, sub |-> t.sub]

\* chrono: t - Duration::days(n)
minus_days(t, n) == [t EXCEPT !.day = t.day - n]

\* chrono DateTime<Utc>::to_rfc3339: "YYYY-MM-DDTHH:MM:SS[.fff]+00:00"
to_rfc3339(t) ==
    <<t.day, CH_T, t.hour, MinSec(t), IF t.sub = 0 THEN CH_PLUS ELSE CH_DOT>>

\* chrono format("%Y-%m-%dT%H:00:00Z")
format_hour_start(t) == <<t.day, CH_T, t.hour, 0, CH_Z>>

\* chrono format("%Y-%m-%d")
format_date(t) == <<t.day>>

\* SQLite strftime('%Y-%m-%dT%H:00:00Z', text)
sqlite_strftime_hour(text) == <<text[1], CH_T, text[3], 0, CH_Z>>

\* SQLite date(text): "YYYY-MM-DD"
sqlite_date(text) == <<text[1]>>

\* SQLite datetime(text, '+1 hour'): always "YYYY-MM-DD HH:MM:SS"
sqlite_datetime_plus_hour(text) ==
    LET h == text[1] * HOURS_PER_DAY + text[3] + 1
    IN  <<h \div HOURS_PER_DAY, CH_SPACE, h % HOURS_PER_DAY, text[4], END_OF_TEXT>>

RECURSIVE text_lt_from(_, _, _)
text_lt_from(a, b, i) ==
    IF i > Len(a) \/ i > Len(b) THEN Len(a) < Len(b)
    ELSE IF a[i] # b[i] THEN a[i] < b[i]
    ELSE text_lt_from(a, b, i + 1)

\* SQLite `a < b` on TEXT (BINARY collation)
text_lt(a, b) == text_lt_from(a, b, 1)

(***************************************************************************)
(* REAL values: exact fractions <<numerator, denominator>>; NULL is <<>>   *)
(***************************************************************************)
NULL == <<>>

RECURSIVE GCD(_, _)
GCD(a, b) == IF b = 0 THEN a ELSE GCD(b, a % b)

Frac(n, d) == LET g == GCD(n, d) IN IF g = 0 THEN <<0, 1>> ELSE <<n \div g, d \div g>>

FracAdd(x, y) == Frac(x[1] * y[2] + y[1] * x[2], x[2] * y[2])

FracDiv(x, n) == Frac(x[1], x[2] * n)

RECURSIVE MaxOf(_)
MaxOf(s) == IF Len(s) = 1 THEN s[1] ELSE Max(Head(s), MaxOf(Tail(s)))

RECURSIVE MinOf(_)
MinOf(s) == IF Len(s) = 1 THEN s[1] ELSE Min(Head(s), MinOf(Tail(s)))

RECURSIVE FracSumOf(_)
FracSumOf(s) == IF s = <<>> THEN <<0, 1>> ELSE FracAdd(Head(s), FracSumOf(Tail(s)))

\* SQL AVG over integer-valued REALs
AvgOf(s) == Frac(SumOf(s), Len(s))

\* SQL AVG over REALs
FracAvgOf(s) == FracDiv(FracSumOf(s), Len(s))

Column(rows, c) == [i \in DOMAIN rows |-> rows[i][c]]

(***************************************************************************)
(* The store: src/server/src/db.rs                                         *)
(***************************************************************************)
\* bounds of the store model
MaxRaw == 2

MaxTicks == 4

Servers == {"s1", "s2"}

\* the SystemMetrics an agent may send, but for its timestamp; a ping
\* target's latency_ms is <<ms>> or, when it has none, <<>>
Samples ==
    { [cpu |-> 10, memory |-> 40, disks |-> <<50, 90>>, total_rx |-> 100, total_tx |-> 10,
       ping |-> [present |-> TRUE, targets |-> << <<30>>, <<>>, <<50>> >>]],
      [cpu |-> 34, memory |-> 20, disks |-> <<>>, total_rx |-> 300, total_tx |-> 25,
       ping |-> [present |-> FALSE, targets |-> <<>>]] }

Outcomes == {"ok", "err"}

StoreInit ==
    /\ now = [day |-> 0, hour |-> 23, sub |-> 2]
    /\ ticks = 0
    /\ metrics_raw = <<>>
    /\ metrics_hourly = <<>>
    /\ metrics_daily = <<>>
    /\ result = "none"

\* the wall clock moves on: later within the hour, or to the top of the hour
\* 1 hour, 23 hours or 29 days ahead
LaterInstants(t) ==
    LET top == [t EXCEPT !.sub = 0]
    IN  {[t EXCEPT !.sub = s] : s \in (t.sub + 1)..2}
        \cup {minus_hours(top, -1), minus_hours(top, -23), minus_days(top, -29)}

Tick ==
    /\ ticks < MaxTicks
    /\ \E t \in LaterInstants(now) : now' = t
    /\ ticks' = ticks + 1
    /\ UNCHANGED <<metrics_raw, metrics_hourly, metrics_daily, result>>
    /\ UNCHANGED <<agentVars, registryVars, broadcastVars, ingestVars>>

\* ---- store_metrics ----
\* `metrics.disks.first().map(|d| d.usage_percent).unwrap_or(0.0)`
disk_usage_of(metrics) == IF metrics.disks = <<>> THEN 0 ELSE metrics.disks[1]

RECURSIVE valid_pings_of(_)
\* `p.targets.iter().filter_map(|t| t.latency_ms).collect()`
valid_pings_of(ping_targets) ==
    IF ping_targets = <<>> THEN <<>>
    ELSE Head(ping_targets) \o valid_pings_of(Tail(ping_targets))

\* (mutation of ping_ms_of: the sum divided by the number of all targets)
ping_ms_over_all_targets(metrics) ==
    IF ~metrics.ping.present THEN NULL
    ELSE LET valid_pings == valid_pings_of(metrics.ping.targets)
         IN  IF valid_pings = <<>> THEN NULL
             ELSE Frac(SumOf(valid_pings), Len(metrics.ping.targets))

\* the average latency over the targets that have one, or NULL
ping_ms_of(metrics) ==
    IF ~metrics.ping.present THEN NULL
    ELSE LET valid_pings == valid_pings_of(metrics.ping.targets)
         IN  IF valid_pings = <<>> THEN NULL ELSE AvgOf(valid_pings)

\* the row of one snapshot; its timestamp is the agent's Utc::now(), taken here
\* to be the server's clock reading when the snapshot is stored
raw_row(server_id, metrics, timestamp) ==
    [server_id |-> server_id,
     timestamp |-> to_rfc3339(timestamp),
     cpu_usage |-> metrics.cpu,
     memory_usage |-> metrics.memory,
     disk_usage |-> disk_usage_of(metrics),
     net_rx |-> metrics.total_rx,
     net_tx |-> metrics.total_tx,
     ping_ms |-> ping_ms_of(metrics)]

\* store_metrics(conn, server_id, metrics): one INSERT, which may fail
store_metrics_step(server_id, metrics, outcome) ==
    /\ Len(metrics_raw) < MaxRaw
    /\ IF outcome = "ok"
       THEN metrics_raw' = Append(metrics_raw, raw_row(server_id, metrics, now))
       ELSE UNCHANGED metrics_raw
    /\ result' = outcome
    /\ UNCHANGED <<now, ticks, metrics_hourly, metrics_daily>>
    /\ UNCHANGED agentVars

\* store_metrics, called on its own
store_metrics(server_id, metrics, outcome) ==
    /\ store_metrics_step(server_id, metrics, outcome)
    /\ UNCHANGED <<registryVars, broadcastVars, ingestVars>>

StoreMetrics ==
    \E server_id \in Servers, metrics \in Samples, outcome \in Outcomes :
        store_metrics(server_id, metrics, outcome)

\* ---- INSERT OR REPLACE ... SELECT ... GROUP BY ----
\* GROUP BY hands its groups over in key order
ServerOrder == <<"s1", "s2">>

ServerRank(server_id) == CHOOSE i \in DOMAIN ServerOrder : ServerOrder[i] = server_id

key_lt(j, k) ==
    \/ ServerRank(j[1]) < ServerRank(k[1])
    \/ (j[1] = k[1] /\ text_lt(j[2], k[2]))

RECURSIVE in_key_order(_)
in_key_order(keys) ==
    IF keys = {} THEN <<>>
    ELSE LET least == CHOOSE k \in keys : \A j \in keys \ {k} : key_lt(k, j)
         IN  <<least>> \o in_key_order(keys \ {least})

\* (mutation of insert_or_replace: a plain INSERT, no UNIQUE conflict resolved)
insert_plain(table, row, time_key) == Append(table, row)

\* INSERT OR REPLACE under UNIQUE(server_id, time_key): the row in conflict
\* is deleted, the new row is added
insert_or_replace(table, row, time_key) ==
    SelectSeq(table, LAMBDA r :
        ~(r.server_id = row.server_id /\ r[time_key] = row[time_key])) \o <<row>>

\* (mutation of insert_or_replace_all: the selected rows added in bulk, no conflict resolved)
insert_all_plain(table, rows, time_key) == table \o rows

RECURSIVE insert_or_replace_all(_, _, _)
insert_or_replace_all(table, rows, time_key) ==
    IF rows = <<>> THEN table
    ELSE insert_or_replace_all(insert_or_replace(table, Head(rows), time_key),
                               Tail(rows), time_key)

\* ---- aggregate_hourly ----
\* (mutation of in_hour_window: the window left open at its upper end)
in_hour_window_open_ended(timestamp, hour_start) == ~text_lt(timestamp, hour_start)

\* `WHERE timestamp >= ?1 AND timestamp < datetime(?1, '+1 hour')`
in_hour_window(timestamp, hour_start) ==
    /\ ~text_lt(timestamp, hour_start)
    /\ text_lt(timestamp, sqlite_datetime_plus_hour(hour_start))

\* one row of the SELECT: the aggregates of one group of raw rows
hourly_row(server_id, hour, rows) ==
    [server_id |-> server_id,
     hour_start |-> hour,
     cpu_avg |-> AvgOf(Column(rows, "cpu_usage")),
     cpu_max |-> MaxOf(Column(rows, "cpu_usage")),
     memory_avg |-> AvgOf(Column(rows, "memory_usage")),
     memory_max |-> MaxOf(Column(rows, "memory_usage")),
     disk_avg |-> AvgOf(Column(rows, "disk_usage")),
     net_rx_total |-> MaxOf(Column(rows, "net_rx")) - MinOf(Column(rows, "net_rx")),
     net_tx_total |-> MaxOf(Column(rows, "net_tx")) - MinOf(Column(rows, "net_tx")),
     ping_avg |-> NULL,
     sample_count |-> Len(rows)]

\* the rows the SELECT of aggregate_hourly yields at time t
hourly_select(raw, t) ==
    LET hour_start == format_hour_start(minus_hours(t, 1))
        selected == SelectSeq(raw, LAMBDA r : in_hour_window(r.timestamp, hour_start))
        hour_of(r) == sqlite_strftime_hour(r.timestamp)
        groups == in_key_order({<<r.server_id, hour_of(r)>> : r \in Range(selected)})
    IN  [i \in DOMAIN groups |->
            hourly_row(groups[i][1], groups[i][2],
                SelectSeq(selected, LAMBDA r :
                    r.server_id = groups[i][1] /\ hour_of(r) = groups[i][2]))]

\* metrics_hourly after aggregate_hourly has run at time t
aggregated_hourly(raw, hourly, t) ==
    insert_or_replace_all(hourly, hourly_select(raw, t), "hour_start")

aggregate_hourly_step(outcome) ==
    /\ IF outcome = "ok"
       THEN metrics_hourly' = aggregated_hourly(metrics_raw, metrics_hourly, now)
       ELSE UNCHANGED metrics_hourly
    /\ result' = outcome
    /\ UNCHANGED <<now, ticks, metrics_raw, metrics_daily>>
    /\ UNCHANGED agentVars

\* aggregate_hourly, called on its own
aggregate_hourly(outcome) ==
    /\ aggregate_hourly_step(outcome)
    /\ UNCHANGED <<registryVars, broadcastVars, ingestVars>>

AggregateHourly == \E outcome \in Outcomes : aggregate_hourly(outcome)

\* ---- aggregate_daily ----
\* (mutation of uptime_percent_of: the two factors swapped)
uptime_percent_swapped(count) == Frac(count * HOURS_PER_DAY, 100)

\* (mutation of uptime_percent_of: multiplied by the hours of a day)
uptime_percent_times_day(count) == Frac(count * 100 * HOURS_PER_DAY, 1)

\* `(COUNT(*) * 100.0 / 24.0)`
uptime_percent_of(count) == Frac(count * 100, HOURS_PER_DAY)

\* `WHERE date(hour_start) = ?1`
in_day(hour_start, day) == sqlite_date(hour_start) = day

daily_row(server_id, day, rows) ==
    [server_id |-> server_id,
     date |-> day,
     cpu_avg |-> FracAvgOf(Column(rows, "cpu_avg")),
     cpu_max |-> MaxOf(Column(rows, "cpu_max")),
     memory_avg |-> FracAvgOf(Column(rows, "memory_avg")),
     memory_max |-> MaxOf(Column(rows, "memory_max")),
     disk_avg |-> FracAvgOf(Column(rows, "disk_avg")),
     net_rx_total |-> SumOf(Column(rows, "net_rx_total")),
     net_tx_total |-> SumOf(Column(rows, "net_tx_total")),
     uptime_percent |-> uptime_percent_of(Len(rows)),
     ping_avg |-> NULL,
     sample_count |-> SumOf(Column(rows, "sample_count"))]

\* the rows the SELECT of aggregate_daily yields at time t
daily_select(hourly, t) ==
    LET yesterday == format_date(minus_days(t, 1))
        selected == SelectSeq(hourly, LAMBDA r : in_day(r.hour_start, yesterday))
        day_of(r) == sqlite_date(r.hour_start)
        groups == in_key_order({<<r.server_id, day_of(r)>> : r \in Range(selected)})
    IN  [i \in DOMAIN groups |->
            daily_row(groups[i][1], groups[i][2],
                SelectSeq(selected, LAMBDA r :
                    r.server_id = groups[i][1] /\ day_of(r) = groups[i][2]))]

\* metrics_daily after aggregate_daily has run at time t
aggregated_daily(hourly, daily, t) ==
    insert_or_replace_all(daily, daily_select(hourly, t), "date")

aggregate_daily_step(outcome) ==
    /\ IF outcome = "ok"
       THEN metrics_daily' = aggregated_daily(metrics_hourly, metrics_daily, now)
       ELSE UNCHANGED metrics_daily
    /\ result' = outcome
    /\ UNCHANGED <<now, ticks, metrics_raw, metrics_hourly>>
    /\ UNCHANGED agentVars

\* aggregate_daily, called on its own
aggregate_daily(outcome) ==
    /\ aggregate_daily_step(outcome)
    /\ UNCHANGED <<registryVars, broadcastVars, ingestVars>>

AggregateDaily == \E outcome \in Outcomes : aggregate_daily(outcome)

\* ---- cleanup_old_data ----
\* (mutation of cleaned_raw: the raw tier kept for one hour only)
cleaned_raw_after_an_hour(raw, t) ==
    LET cutoff_raw == to_rfc3339(minus_hours(t, 1))
    IN  SelectSeq(raw, LAMBDA r : ~text_lt(r.timestamp, cutoff_raw))

\* `DELETE FROM metrics_raw WHERE timestamp < ?1`, ?1 = (now - 24 h).to_rfc3339()
cleaned_raw(raw, t) ==
    LET cutoff_raw == to_rfc3339(minus_hours(t, RAW_RETENTION_HOURS))
    IN  SelectSeq(raw, LAMBDA r : ~text_lt(r.timestamp, cutoff_raw))

\* `DELETE FROM metrics_hourly WHERE hour_start < ?1`, ?1 = (now - 30 d).to_rfc3339()
cleaned_hourly(hourly, t) ==
    LET cutoff_hourly == to_rfc3339(minus_days(t, HOURLY_RETENTION_DAYS))
    IN  SelectSeq(hourly, LAMBDA r : ~text_lt(r.hour_start, cutoff_hourly))

\* the two DELETEs run one after the other, each committed on its own; `?`
\* returns at the first that fails (failing = 1 or 2; 0: neither fails)
cleanup_old_data_step(failing) ==
    /\ metrics_raw' = IF failing = 1 THEN metrics_raw ELSE cleaned_raw(metrics_raw, now)
    /\ metrics_hourly' = IF failing = 0 THEN cleaned_hourly(metrics_hourly, now)
                         ELSE metrics_hourly
    /\ result' = IF failing = 0 THEN "ok" ELSE "err"
    /\ UNCHANGED <<now, ticks, metrics_daily>>
    /\ UNCHANGED agentVars

\* cleanup_old_data, called on its own
cleanup_old_data(failing) ==
    /\ cleanup_old_data_step(failing)
    /\ UNCHANGED <<registryVars, broadcastVars, ingestVars>>

CleanupOldData == \E failing \in 0..2 : cleanup_old_data(failing)

\* ---- the hourly job on schedule ----
\* the hours the clock is followed for
MaxHours == 26

\* the clock reaches the top of the next hour and the scheduler runs
\* aggregate_hourly there, which succeeds
hourly_job ==
    LET t == minus_hours([now EXCEPT !.sub = 0], -1)
    IN  /\ ticks < MaxHours
        /\ now' = t
        /\ ticks' = ticks + 1
        /\ metrics_hourly' = aggregated_hourly(metrics_raw, metrics_hourly, t)
        /\ result' = "ok"
        /\ UNCHANGED <<metrics_raw, metrics_daily>>
        /\ UNCHANGED <<agentVars, registryVars, broadcastVars, ingestVars>>

\* snapshots are stored, the hourly job runs in every clock hour (and may run
\* more often), the eviction runs at any time
NextCadence == hourly_job \/ StoreMetrics \/ AggregateHourly \/ CleanupOldData

\* ---- store_metrics on a wider choice of snapshots ----
\* further SystemMetrics: a ping batch in which no target has a latency, an
\* empty ping batch, and a single disk next to a batch where all targets answer
AppendSamples ==
    Samples \cup
    { [cpu |-> 55, memory |-> 60, disks |-> <<70>>, total_rx |-> 500, total_tx |-> 40,
       ping |-> [present |-> TRUE, targets |-> << <<>>, <<>> >>]],
      [cpu |-> 56, memory |-> 61, disks |-> <<5, 95>>, total_rx |-> 600, total_tx |-> 50,
       ping |-> [present |-> TRUE, targets |-> <<>>]],
      [cpu |-> 57, memory |-> 62, disks |-> <<80, 20, 30>>, total_rx |-> 700, total_tx |-> 60,
       ping |-> [present |-> TRUE, targets |-> << <<20>>, <<25>>, <<90>> >>]] }

NextAppend ==
    \E server_id \in Servers, metrics \in AppendSamples, outcome \in Outcomes :
        store_metrics(server_id, metrics, outcome)

(***************************************************************************)
(* AgentRegistry: AppState::agent_connections, a HashMap from server_id to *)
(* the mpsc::Sender of the agent's command channel. The map is modelled as *)
(* a function whose domain is its set of keys; a channel is the queue of   *)
(* its buffered commands and whether its receiver has been dropped.        *)
(* register, unregister and send follow the component's description.       *)
(***************************************************************************)
\* the capacity of an agent's command channel
ChannelCapacity == 2

Commands == {"set_ping_targets", "update"}

\* the pasts a server_id without entry may have
NoEntryPasts == {"never_registered", "unregistered"}

RegistryInit ==
    /\ agent_connections = <<>>
    /\ connected = {}
    /\ send_result = "none"
    /\ dropped_by_send = {}
    /\ once_registered = {}
    /\ failure_seen = [past \in NoEntryPasts |-> "none"]

\* HashMap::insert
map_insert(map, key, value) ==
    [k \in DOMAIN map \cup {key} |-> IF k = key THEN value ELSE map[k]]

\* HashMap::remove
map_remove(map, key) == [k \in DOMAIN map \ {key} |-> map[k]]

\* register(server_id): the agent's connection is established; its entry is
\* created with a new channel
register(server_id) ==
    /\ server_id \notin connected
    /\ connected' = connected \cup {server_id}
    /\ agent_connections' =
           map_insert(agent_connections, server_id, [queue |-> <<>>, closed |-> FALSE])
    /\ once_registered' = once_registered \cup {server_id}
    /\ dropped_by_send' = dropped_by_send \ {server_id}
    /\ UNCHANGED <<send_result, failure_seen>>
    /\ UNCHANGED <<agentVars, storeVars, broadcastVars, ingestVars>>

\* the agent's connection goes down: the receiving end of its channel is
\* dropped, which closes the channel
connection_lost(server_id) ==
    /\ server_id \in connected
    /\ connected' = connected \ {server_id}
    /\ agent_connections' =
           IF server_id \in DOMAIN agent_connections
           THEN [agent_connections EXCEPT ![server_id].closed = TRUE]
           ELSE agent_connections
    /\ UNCHANGED <<send_result, dropped_by_send, once_registered, failure_seen>>
    /\ UNCHANGED <<agentVars, storeVars, broadcastVars, ingestVars>>

\* unregister(server_id), on disconnect
unregister(server_id) ==
    /\ server_id \notin connected
    /\ server_id \in DOMAIN agent_connections
    /\ agent_connections' = map_remove(agent_connections, server_id)
    /\ UNCHANGED <<connected, send_result, dropped_by_send, once_registered, failure_seen>>
    /\ UNCHANGED <<agentVars, storeVars, broadcastVars, ingestVars>>

\* the agent takes the next command out of its channel
agent_receives(server_id) ==
    /\ server_id \in connected
    /\ server_id \in DOMAIN agent_connections
    /\ agent_connections[server_id].queue # <<>>
    /\ agent_connections' =
           [agent_connections EXCEPT ![server_id].queue = Tail(@)]
    /\ UNCHANGED <<connected, send_result, dropped_by_send, once_registered, failure_seen>>
    /\ UNCHANGED <<agentVars, storeVars, broadcastVars, ingestVars>>

\* the channel takes no further command: its buffer is full or it is closed
channel_refuses(channel) == channel.closed \/ Len(channel.queue) >= ChannelCapacity

\* (mutation of entries_after_failed_send: the entry left in the map)
entries_kept(map, server_id) == map

\* a send that fails on the channel unregisters the agent
entries_after_failed_send(map, server_id) == map_remove(map, server_id)

\* the past of a server_id that has no entry
past_of(server_id) ==
    IF server_id \in once_registered THEN "unregistered" ELSE "never_registered"

\* send(server_id, command) -> Result
send(server_id, command) ==
    /\ IF server_id \notin DOMAIN agent_connections
       THEN /\ send_result' = "NotConnected"
            /\ failure_seen' = [failure_seen EXCEPT ![past_of(server_id)] = "NotConnected"]
            /\ UNCHANGED <<agent_connections, dropped_by_send>>
       ELSE IF channel_refuses(agent_connections[server_id])
       THEN /\ send_result' = "ChannelFailed"
            /\ agent_connections' = entries_after_failed_send(agent_connections, server_id)
            /\ dropped_by_send' =
                   IF server_id \in connected THEN dropped_by_send \cup {server_id}
                   ELSE dropped_by_send
            /\ UNCHANGED failure_seen
       ELSE /\ send_result' = "Ok"
            /\ agent_connections' =
                   [agent_connections EXCEPT ![server_id].queue = Append(@, command)]
            /\ UNCHANGED <<dropped_by_send, failure_seen>>
    /\ UNCHANGED <<connected, once_registered>>
    /\ UNCHANGED <<agentVars, storeVars, broadcastVars, ingestVars>>

Send == \E server_id \in Servers, command \in Commands : send(server_id, command)

NextRegistry ==
    \/ \E server_id \in Servers : register(server_id)
    \/ \E server_id \in Servers : connection_lost(server_id)
    \/ \E server_id \in Servers : unregister(server_id)
    \/ \E server_id \in Servers : agent_receives(server_id)
    \/ Send

(***************************************************************************)
(* Broadcaster: AppState::metrics_tx, a tokio broadcast channel. The       *)
(* channel keeps the last BroadcastCapacity messages; every receiver has   *)
(* its own position in the sequence of messages sent.                      *)
(***************************************************************************)
\* the capacity the channel is created with
BroadcastCapacity == 2

\* bound of the broadcaster model
MaxPublished == 4

Viewers == {"v1", "v2"}

Messages == {"cpu 10", "cpu 34"}

BroadcastInit ==
    /\ metrics_tx = <<>>
    /\ subscribers = <<>>
    /\ publish_result = "none"

\* the position of the oldest message the channel still holds
oldest_retained(sent) == Max(1, Len(sent) - BroadcastCapacity + 1)

\* subscribe(): a receiver that sees the messages sent from now on
subscribe(viewer) ==
    /\ viewer \notin DOMAIN subscribers
    /\ subscribers' =
           map_insert(subscribers, viewer,
               [since |-> Len(metrics_tx) + 1, next |-> Len(metrics_tx) + 1,
                received |-> <<>>, missed |-> 0])
    /\ UNCHANGED <<metrics_tx, publish_result>>
    /\ UNCHANGED <<agentVars, storeVars, registryVars, ingestVars>>

\* the viewer goes away: its receiver is dropped
viewer_leaves(viewer) ==
    /\ viewer \in DOMAIN subscribers
    /\ subscribers' = map_remove(subscribers, viewer)
    /\ UNCHANGED <<metrics_tx, publish_result>>
    /\ UNCHANGED <<agentVars, storeVars, registryVars, ingestVars>>

\* (mutation of may_publish: the sender waits while a receiver has a full
\* buffer of messages it has not read, as on a bounded queue)
may_publish_when_room(sent, receivers) ==
    \A v \in DOMAIN receivers : Len(sent) - receivers[v].next + 1 < BroadcastCapacity

\* broadcast::Sender::send never waits for a receiver
may_publish(sent, receivers) == TRUE

\* publish(message): metrics_tx.send(message); Ok(number of receivers), or
\* Err when there is none
publish(message) ==
    /\ Len(metrics_tx) < MaxPublished
    /\ may_publish(metrics_tx, subscribers)
    /\ metrics_tx' = Append(metrics_tx, message)
    /\ publish_result' =
           IF DOMAIN subscribers = {} THEN "Err" ELSE "Ok"
    /\ UNCHANGED subscribers
    /\ UNCHANGED <<agentVars, storeVars, registryVars, ingestVars>>

\* broadcast::Receiver::recv with a message waiting: a receiver that fell
\* behind the oldest message still held gets Lagged and is moved to that
\* message; otherwise it gets its next message
viewer_recv(viewer) ==
    /\ viewer \in DOMAIN subscribers
    /\ subscribers[viewer].next <= Len(metrics_tx)
    /\ LET receiver == subscribers[viewer]
           oldest == oldest_retained(metrics_tx)
       IN  subscribers' =
             IF receiver.next < oldest
             THEN [subscribers EXCEPT ![viewer].next = oldest,
                                      ![viewer].missed = @ + (oldest - receiver.next)]
             ELSE [subscribers EXCEPT ![viewer].next = @ + 1,
                                      ![viewer].received =
                                          Append(@, [at |-> receiver.next,
                                                     message |-> metrics_tx[receiver.next]])]
    /\ UNCHANGED <<metrics_tx, publish_result>>
    /\ UNCHANGED <<agentVars, storeVars, registryVars, ingestVars>>

Publish == \E message \in Messages : publish(message)

NextBroadcast ==
    \/ \E viewer \in Viewers : subscribe(viewer)
    \/ \E viewer \in Viewers : viewer_leaves(viewer)
    \/ Publish
    \/ \E viewer \in Viewers : viewer_recv(viewer)

(***************************************************************************)
(* Ingestion: one flow per connected agent stores the agent's snapshots,   *)
(* one after the other, and the maintenance jobs run the rollups and the   *)
(* eviction; each takes the Mutex of AppState::db for its call.            *)
(***************************************************************************)
\* bound of the ingestion model: the snapshots an agent sends
MaxSnapshots == 2

MaxIngestTicks == 2

Jobs == {"hourly", "daily", "evict"}

IngestInit ==
    /\ db_guard = {}
    /\ inbox = [server_id \in Servers |-> <<>>]
    /\ received_count = [server_id \in Servers |-> 0]
    /\ job = "none"

\* the k-th snapshot of an agent
snapshot_of(k) ==
    [cpu |-> k, memory |-> 40, disks |-> <<>>, total_rx |-> 100 * k, total_tx |-> 10 * k,
     ping |-> [present |-> FALSE, targets |-> <<>>]]

\* the transport hands the agent's next snapshot to its flow
receive_snapshot(server_id) ==
    /\ received_count[server_id] < MaxSnapshots
    /\ received_count' = [received_count EXCEPT ![server_id] = @ + 1]
    /\ inbox' = [inbox EXCEPT ![server_id] = Append(@, snapshot_of(received_count[server_id] + 1))]
    /\ UNCHANGED <<db_guard, job>>
    /\ UNCHANGED <<agentVars, storeVars, registryVars, broadcastVars>>

\* (mutation of may_lock: the guard handed out whoever holds it)
may_lock_always(holders) == TRUE

\* Mutex::lock returns once nobody holds the Mutex
may_lock(holders) == holders = {}

\* the flow of an agent: `state.db.lock().await` for its oldest snapshot
flow_lock(server_id) ==
    /\ inbox[server_id] # <<>>
    /\ server_id \notin db_guard
    /\ Len(metrics_raw) < MaxRaw
    /\ may_lock(db_guard)
    /\ db_guard' = db_guard \cup {server_id}
    /\ UNCHANGED <<inbox, received_count, job>>
    /\ UNCHANGED <<agentVars, storeVars, registryVars, broadcastVars>>

\* the flow of an agent: store_metrics under the guard, which is then dropped
flow_store(server_id, outcome) ==
    /\ server_id \in db_guard
    /\ store_metrics_step(server_id, Head(inbox[server_id]), outcome)
    /\ inbox' = [inbox EXCEPT ![server_id] = Tail(@)]
    /\ db_guard' = db_guard \ {server_id}
    /\ UNCHANGED <<received_count, job>>
    /\ UNCHANGED <<registryVars, broadcastVars>>

\* a maintenance job: `state.db.lock().await`
job_lock(j) ==
    /\ job = "none"
    /\ may_lock(db_guard)
    /\ db_guard' = db_guard \cup {"job"}
    /\ job' = j
    /\ UNCHANGED <<inbox, received_count>>
    /\ UNCHANGED <<agentVars, storeVars, registryVars, broadcastVars>>

\* a maintenance job: its operation under the guard, which is then dropped
job_run ==
    /\ "job" \in db_guard
    /\ CASE job = "hourly" -> \E outcome \in Outcomes : aggregate_hourly_step(outcome)
         [] job = "daily" -> \E outcome \in Outcomes : aggregate_daily_step(outcome)
         [] job = "evict" -> \E failing \in 0..2 : cleanup_old_data_step(failing)
    /\ db_guard' = db_guard \ {"job"}
    /\ job' = "none"
    /\ UNCHANGED <<inbox, received_count>>
    /\ UNCHANGED <<registryVars, broadcastVars>>

\* the wall clock moves on while snapshots come in
IngestTick == ticks < MaxIngestTicks /\ Tick

NextIngest ==
    \/ IngestTick
    \/ \E server_id \in Servers : receive_snapshot(server_id)
    \/ \E server_id \in Servers : flow_lock(server_id)
    \/ \E server_id \in Servers, outcome \in Outcomes : flow_store(server_id, outcome)
    \/ \E j \in Jobs : job_lock(j)
    \/ job_run

\* ---- the server at start: no agent connected, no viewer, nobody at the database ----
ServerInit == RegistryInit /\ BroadcastInit /\ IngestInit

NextStore == Tick \/ StoreMetrics \/ AggregateHourly \/ AggregateDaily \/ CleanupOldData

NextRate == CollectNetwork

\* the agent as constructed with one given baseline and no gateway
AgentAtRest ==
    /\ AgentInit /\ last_network_rx = 1000 /\ last_network_tx = 200
    /\ ProbeInit /\ gateway_ip = None

\* the agent, freshly constructed on a host without a gateway, next to an
\* empty database
InitRate == AgentInit /\ ProbeInit /\ gateway_ip = None /\ StoreInit /\ ServerInit

SpecRate == InitRate /\ [][NextRate]_vars

\* an empty database, as init_database creates it
InitStore == AgentAtRest /\ StoreInit /\ ServerInit

SpecStore == InitStore /\ [][NextStore]_vars

SpecCadence == InitStore /\ [][NextCadence]_vars

\* the agent with its ping thread, next to an empty database
InitProbe ==
    /\ AgentInit /\ last_network_rx = 1000 /\ last_network_tx = 200
    /\ ProbeInit
    /\ StoreInit
    /\ ServerInit

SpecProbe == InitProbe /\ [][NextProbe]_vars

\* the probe thread at the top of the for loop of collect_ping_with_targets in
\* its first iteration, with any target list pushed before it; the ping
\* command may give any output
InitPing ==
    /\ AgentInit /\ last_network_rx = 1000 /\ last_network_tx = 200
    /\ gateway_ip \in GatewayChoices
    /\ ping_results = None
    /\ custom_ping_targets \in {targets_to_store(list) : list \in TargetLists}
    /\ ping_results_lock = "free"
    /\ custom_targets_lock = "free"
    /\ pc = "ping"
    /\ cycle = 1
    /\ custom_targets = custom_ping_targets
    /\ target_index = 1
    /\ targets = <<>>
    /\ batches = <<>>
    /\ snapshot = None
    /\ StoreInit
    /\ ServerInit

NextPing ==
    \/ \E output \in AllPingOutputs : probe_ping(output)
    \/ probe_lock_results
    \/ probe_replace_results

SpecPing == InitPing /\ [][NextPing]_vars

\* the agent freshly constructed on a host with a loopback and a bridge
\* interface next to the physical one
InitStartup ==
    /\ networks \in NetworkReadings
    /\ last_network_rx = init_totals(networks)[1]
    /\ last_network_tx = init_totals(networks)[2]
    /\ last_network_time = 0
    /\ instant = 0
    /\ reports = <<>>
    /\ ProbeInit /\ gateway_ip = None
    /\ StoreInit
    /\ ServerInit

\* collect: `self.networks.refresh()`, then collect_network over what the
\* refresh has read
NextStartup ==
    \E readings \in NetworkReadings, dt \in ElapsedChoices :
        /\ networks' = readings
        /\ collect_network_step(physical_totals(readings)[1],
                                physical_totals(readings)[2], dt)
        /\ UNCHANGED probeVars
        /\ UNCHANGED serverVars

SpecStartup == InitStartup /\ [][NextStartup]_vars

\* the server with its registry of agents
SpecRegistry == InitStore /\ [][NextRegistry]_vars

\* the server with its broadcast channel
SpecBroadcast == InitStore /\ [][NextBroadcast]_vars

\* the server with its ingestion flows and maintenance jobs
SpecIngest == InitStore /\ [][NextIngest]_vars

\* an empty database that only receives snapshots
SpecAppend == InitStore /\ [][NextAppend]_vars

(***************************************************************************)
(* aggregate_daily as a function of the hourly tier: the hourly tables it  *)
(* is given are drawn from the rows aggregate_hourly writes for a group of *)
(* raw rows, at most one per (server_id, hour_start)                       *)
(***************************************************************************)
HourlyKeys ==
    << <<"s1", [day |-> 0, hour |-> 0, sub |-> 0]>>,
       <<"s1", [day |-> 0, hour |-> 23, sub |-> 0]>>,
       <<"s2", [day |-> 0, hour |-> 23, sub |-> 0]>>,
       <<"s1", [day |-> 1, hour |-> 23, sub |-> 0]>> >>

SampleGroups ==
    LET one == CHOOSE m \in Samples : m.cpu = 10
        other == CHOOSE m \in Samples : m.cpu = 34
    IN  {<<>>, <<one>>, <<one, other>>}

hourly_row_of_samples(server_id, t, group) ==
    hourly_row(server_id, format_hour_start(t),
               [i \in DOMAIN group |-> raw_row(server_id, group[i], t)])

RECURSIVE hourly_table_of(_, _)
hourly_table_of(choice, i) ==
    IF i > Len(HourlyKeys) THEN <<>>
    ELSE (IF choice[i] = <<>> THEN <<>>
          ELSE <<hourly_row_of_samples(HourlyKeys[i][1], HourlyKeys[i][2], choice[i])>>)
         \o hourly_table_of(choice, i + 1)

DailyInit ==
    /\ now = [day |-> 1, hour |-> 0, sub |-> 2]
    /\ ticks = 0
    /\ metrics_raw = <<>>
    /\ \E choice \in [DOMAIN HourlyKeys -> SampleGroups] :
           metrics_hourly = hourly_table_of(choice, 1)
    /\ metrics_daily = <<>>
    /\ result = "none"

NextDaily == Tick \/ AggregateDaily

InitDaily == AgentAtRest /\ DailyInit /\ ServerInit

SpecDaily == InitDaily /\ [][NextDaily]_vars

(***************************************************************************)
(* Claims about the store                                                  *)
(***************************************************************************)
\* the point in time a timestamp text denotes
InstantOf(text) ==
    [day |-> text[1], hour |-> text[3],
     sub |-> IF text[4] = 1 THEN 2 ELSE IF text[5] = CH_DOT THEN 1 ELSE 0]

\* a is earlier than b
Earlier(a, b) ==
    \/ a.day < b.day
    \/ (a.day = b.day /\ a.hour < b.hour)
    \/ (a.day = b.day /\ a.hour = b.hour /\ a.sub < b.sub)

\* the text lies in the clock hour that starts at h
InHour(text, h) == text[1] = h.day /\ text[3] = h.hour

SameRows(a, b) == Len(a) = Len(b) /\ Range(a) = Range(b)

OnePerKey(table, time_key) ==
    \A i, j \in DOMAIN table :
        (table[i].server_id = table[j].server_id /\ table[i][time_key] = table[j][time_key])
            => i = j

RowsOf(table, server_id, time_key, key) ==
    SelectSeq(table, LAMBDA r : r.server_id = server_id /\ r[time_key] = key)

\* the hourly row h summarises exactly the raw rows `rows`
SummarisesRaw(h, rows) ==
    /\ h.cpu_avg = Frac(SumOf(Column(rows, "cpu_usage")), Len(rows))
    /\ h.memory_avg = Frac(SumOf(Column(rows, "memory_usage")), Len(rows))
    /\ h.disk_avg = Frac(SumOf(Column(rows, "disk_usage")), Len(rows))
    /\ \A i \in DOMAIN rows :
          /\ rows[i].cpu_usage <= h.cpu_max
          /\ rows[i].memory_usage <= h.memory_max
    /\ \E i \in DOMAIN rows : rows[i].cpu_usage = h.cpu_max
    /\ \E i \in DOMAIN rows : rows[i].memory_usage = h.memory_max
    /\ \E i, j \in DOMAIN rows :
          /\ h.net_rx_total = rows[i].net_rx - rows[j].net_rx
          /\ \A k \in DOMAIN rows : rows[j].net_rx <= rows[k].net_rx /\ rows[k].net_rx <= rows[i].net_rx
    /\ \E i, j \in DOMAIN rows :
          /\ h.net_tx_total = rows[i].net_tx - rows[j].net_tx
          /\ \A k \in DOMAIN rows : rows[j].net_tx <= rows[k].net_tx /\ rows[k].net_tx <= rows[i].net_tx
    /\ h.sample_count = Len(rows)

\* C4: aggregate_hourly, for its target hour H (the clock hour of now - 1 h,
\* whichever hour of the day), gives every server_id with a raw row in
\* [H, H + 1 h) exactly one hourly row (server_id, H) that summarises exactly
\* those raw rows.
C4_HourlyRollupOfAnyHour ==
    [][aggregate_hourly("ok") =>
        LET H == minus_hours(now, 1)
        IN  \A s \in Servers :
              LET rows == SelectSeq(metrics_raw,
                              LAMBDA r : r.server_id = s /\ InHour(r.timestamp, H))
                  written == RowsOf(metrics_hourly', s, "hour_start", format_hour_start(H))
              IN  rows # <<>> => (Len(written) = 1 /\ SummarisesRaw(written[1], rows))]_vars

\* C5: aggregate_hourly run twice for the same hour, nothing else touching
\* the raw rows in between, leaves one hourly row per (server_id, hour_start):
\* the same rows with the same values after the second run as after the first.
C5_HourlyRollupTwice ==
    LET once == aggregated_hourly(metrics_raw, metrics_hourly, now)
    IN  \A sub \in 0..2 :
            LET again == aggregated_hourly(metrics_raw, once, [now EXCEPT !.sub = sub])
            IN  /\ OnePerKey(again, "hour_start")
                /\ SameRows(again, once)

\* the hourly tier holds the row of the target hour, and a second run, now,
\* would select that hour's raw rows again
C5_Witness ==
    /\ result = "ok"
    /\ hourly_select(metrics_raw, now) # <<>>
    /\ \A i \in DOMAIN hourly_select(metrics_raw, now) :
           hourly_select(metrics_raw, now)[i] \in Range(metrics_hourly)

\* C6: in every reachable state the hourly tier holds at most one row per
\* (server_id, hour_start) and the daily tier at most one per (server_id, date).
C6_OneRowPerKey ==
    /\ OnePerKey(metrics_hourly, "hour_start")
    /\ OnePerKey(metrics_daily, "date")

\* both tiers hold rows for keys that a run of the aggregations, now, would
\* write again
C6_Witness ==
    /\ \E i \in DOMAIN hourly_select(metrics_raw, now) :
           RowsOf(metrics_hourly, hourly_select(metrics_raw, now)[i].server_id, "hour_start",
                  hourly_select(metrics_raw, now)[i].hour_start) # <<>>
    /\ \E i \in DOMAIN daily_select(metrics_hourly, now) :
           RowsOf(metrics_daily, daily_select(metrics_hourly, now)[i].server_id, "date",
                  daily_select(metrics_hourly, now)[i].date) # <<>>

\* the daily row d summarises exactly the hourly rows `rows`
SummarisesHourly(d, rows) ==
    LET hours == {InstantOf(rows[i].hour_start).hour : i \in DOMAIN rows}
    IN  /\ d.cpu_avg = FracDiv(FracSumOf(Column(rows, "cpu_avg")), Len(rows))
        /\ d.memory_avg = FracDiv(FracSumOf(Column(rows, "memory_avg")), Len(rows))
        /\ d.disk_avg = FracDiv(FracSumOf(Column(rows, "disk_avg")), Len(rows))
        /\ \A i \in DOMAIN rows :
              /\ rows[i].cpu_max <= d.cpu_max
              /\ rows[i].memory_max <= d.memory_max
        /\ \E i \in DOMAIN rows : rows[i].cpu_max = d.cpu_max
        /\ \E i \in DOMAIN rows : rows[i].memory_max = d.memory_max
        /\ d.net_rx_total = SumOf(Column(rows, "net_rx_total"))
        /\ d.net_tx_total = SumOf(Column(rows, "net_tx_total"))
        /\ d.sample_count = SumOf(Column(rows, "sample_count"))
        /\ d.uptime_percent[1] * HOURS_PER_DAY = Cardinality(hours) * 100 * d.uptime_percent[2]

\* C7: aggregate_daily, for its target day D (the date of now - 1 day), gives
\* every server_id with an hourly row in D exactly one daily row
\* (server_id, D) that summarises all of those hourly rows, its
\* uptime_percent being (distinct hours of D with an hourly row) / 24 * 100.
C7_DailyRollup ==
    [][aggregate_daily("ok") =>
        LET D == minus_days(now, 1).day
        IN  \A s \in Servers :
              LET rows == SelectSeq(metrics_hourly,
                              LAMBDA r : r.server_id = s /\ InstantOf(r.hour_start).day = D)
                  written == RowsOf(metrics_daily', s, "date", <<D>>)
              IN  rows # <<>> => (Len(written) = 1 /\ SummarisesHourly(written[1], rows))]_vars

\* a daily row built from two hourly rows of its day, next to one built from
\* a single hourly row
C7_Witness ==
    /\ \E i \in DOMAIN metrics_daily :
          /\ metrics_daily[i].uptime_percent = Frac(200, HOURS_PER_DAY)
          /\ metrics_daily[i].sample_count >= 3
    /\ \E i \in DOMAIN metrics_daily :
          metrics_daily[i].uptime_percent = Frac(100, HOURS_PER_DAY)

\* C8: right after a successful cleanup_old_data at time t no raw row older
\* than t - 24 h and no hourly row older than t - 30 d remains, every raw and
\* hourly row inside those windows is still there, and the daily tier is as
\* it was.
C8_EvictPostcondition ==
    [][cleanup_old_data(0) =>
        LET raw_cutoff == minus_hours(now, RAW_RETENTION_HOURS)
            hourly_cutoff == minus_days(now, HOURLY_RETENTION_DAYS)
        IN  /\ \A i \in DOMAIN metrics_raw' :
                  ~Earlier(InstantOf(metrics_raw'[i].timestamp), raw_cutoff)
            /\ \A i \in DOMAIN metrics_hourly' :
                  ~Earlier(InstantOf(metrics_hourly'[i].hour_start), hourly_cutoff)
            /\ metrics_raw' = SelectSeq(metrics_raw,
                  LAMBDA r : ~Earlier(InstantOf(r.timestamp), raw_cutoff))
            /\ metrics_hourly' = SelectSeq(metrics_hourly,
                  LAMBDA r : ~Earlier(InstantOf(r.hour_start), hourly_cutoff))
            /\ metrics_daily' = metrics_daily]_vars

\* the three maintenance operations as functions of the tables, at time t
RunAt(op, db, t) ==
    CASE op = "evict" ->
            [db EXCEPT !.raw = cleaned_raw(db.raw, t), !.hourly = cleaned_hourly(db.hourly, t)]
      [] op = "rollup_hourly" ->
            [db EXCEPT !.hourly = aggregated_hourly(db.raw, db.hourly, t)]
      [] op = "rollup_daily" ->
            [db EXCEPT !.daily = aggregated_daily(db.hourly, db.daily, t)]

RECURSIVE RunAllAt(_, _, _)
RunAllAt(ops, db, t) ==
    IF ops = <<>> THEN db ELSE RunAllAt(Tail(ops), RunAt(Head(ops), db, t), t)

MaintenanceOrders ==
    {ops \in [1..3 -> {"evict", "rollup_hourly", "rollup_daily"}] :
        Range(ops) = {"evict", "rollup_hourly", "rollup_daily"}}

\* C9: evict, rollup_hourly and rollup_daily, run at the same instant, are
\* each idempotent and give the same hourly and daily rows in whichever order
\* they run.
C9_MaintenanceCommutes ==
    LET db == [raw |-> metrics_raw, hourly |-> metrics_hourly, daily |-> metrics_daily]
    IN  /\ \A op \in {"evict", "rollup_hourly", "rollup_daily"} :
              LET once == RunAt(op, db, now)
                  twice == RunAt(op, once, now)
              IN  SameRows(once.hourly, twice.hourly) /\ SameRows(once.daily, twice.daily)
        /\ \A a, b \in MaintenanceOrders :
              /\ SameRows(RunAllAt(a, db, now).hourly, RunAllAt(b, db, now).hourly)
              /\ SameRows(RunAllAt(a, db, now).daily, RunAllAt(b, db, now).daily)

\* C10: a store operation that returns an error leaves the raw, hourly and
\* daily tiers exactly as they were before the call.
C10_ErrorLeavesTablesAlone ==
    [][(result' = "err" /\ now' = now) => UNCHANGED tables]_vars

\* the hourly row h is what aggregate_hourly, run at any time of the hour
\* after h's hour, derives from the raw rows now held
HourlyRederivable(h) ==
    LET top == minus_hours(InstantOf(h.hour_start), -1)
    IN  \A sub \in 0..2 :
            h \in Range(hourly_select(metrics_raw, [top EXCEPT !.sub = sub]))

\* the daily row d is what aggregate_daily, run at any time of the day after
\* d's day, derives from the hourly rows now held
DailyRederivable(d) ==
    \A hour \in {0, HOURS_PER_DAY - 1}, sub \in 0..2 :
        d \in Range(daily_select(metrics_hourly,
                        [day |-> d.date[1] + 1, hour |-> hour, sub |-> sub]))

RawOfHourRetained(h) ==
    ~Earlier(InstantOf(h.hour_start), minus_hours(now, RAW_RETENTION_HOURS))

\* the day of d began no more than 30 days ago: none of its hourly rows can
\* have been evicted
HourlyOfDayRetained(d) ==
    ~Earlier([day |-> d.date[1], hour |-> 0, sub |-> 0],
             minus_days(now, HOURLY_RETENTION_DAYS))

WithLatency(ping_targets) == {i \in DOMAIN ping_targets : ping_targets[i] # <<>>}

RECURSIVE LatencySum(_, _)
LatencySum(ping_targets, indices) ==
    IF indices = {} THEN 0
    ELSE LET i == CHOOSE j \in indices : TRUE
         IN  ping_targets[i][1] + LatencySum(ping_targets, indices \ {i})

\* x is the arithmetic mean of latency_ms over the targets that have one
IsMeanLatency(x, ping_targets) ==
    /\ x # NULL
    /\ x[1] * Cardinality(WithLatency(ping_targets))
          = x[2] * LatencySum(ping_targets, WithLatency(ping_targets))

\* C11: a successful store_metrics adds exactly one raw row and changes nothing
\* else; the row's disk_usage is the usage % of the first disk of the snapshot
\* (0 when it has no disks), its ping_ms is the arithmetic mean of latency_ms
\* over the ping targets that have a latency, and is absent when the snapshot
\* has no ping batch or no target has a latency.
C11_AppendOneRow ==
    [][\A server_id \in Servers, metrics \in AppendSamples :
        store_metrics(server_id, metrics, "ok") =>
            LET row == metrics_raw'[Len(metrics_raw')]
                ping_targets == metrics.ping.targets
            IN  /\ Len(metrics_raw') = Len(metrics_raw) + 1
                /\ SubSeq(metrics_raw', 1, Len(metrics_raw)) = metrics_raw
                /\ metrics_hourly' = metrics_hourly
                /\ metrics_daily' = metrics_daily
                /\ row.server_id = server_id
                /\ row.disk_usage = (IF Len(metrics.disks) = 0 THEN 0 ELSE metrics.disks[1])
                /\ IF metrics.ping.present /\ WithLatency(ping_targets) # {}
                   THEN IsMeanLatency(row.ping_ms, ping_targets)
                   ELSE row.ping_ms = NULL]_vars

\* rows have been appended for a snapshot where one of three targets has no
\* latency (mean of 30 and 50) and for one whose targets all lack a latency
C11_Witness ==
    /\ Len(metrics_raw) = 2
    /\ metrics_raw[1].ping_ms = <<40, 1>>
    /\ metrics_raw[1].disk_usage = 50
    /\ metrics_raw[2].ping_ms = NULL
    /\ metrics_raw[2].cpu_usage = 55
    /\ metrics_raw[2].disk_usage = 70

(***************************************************************************)
(* Claims about the rate tracker                                           *)
(***************************************************************************)
\* a step that is one call of collect_network
IsObservation == Len(reports') = Len(reports) + 1

\* the NetworkMetrics that call returned
Reported == reports'[Len(reports')]

\* time since the last accepted observation, as the call sees it
ElapsedMs == instant' - last_network_time

RateIs(total, last, speed) == speed = ((total - last) * MS_PER_SEC) \div ElapsedMs

\* C1 as stated: every observation at least 0.1 s (exactly 0.1 s included) after
\* the last accepted one, with totals not below the baseline, reports
\* (current - previous) / elapsed in both directions.
C1_RateFromTenthOfSecond ==
    [][(IsObservation /\ ElapsedMs >= MIN_ELAPSED_MS
            /\ Reported.total_rx >= last_network_rx
            /\ Reported.total_tx >= last_network_tx)
        => (/\ RateIs(Reported.total_rx, last_network_rx, Reported.rx_speed)
            /\ RateIs(Reported.total_tx, last_network_tx, Reported.tx_speed))]_vars

\* C1 amended: every observation more than 0.1 s after the last accepted one,
\* with totals not below the baseline, reports (current - previous) / elapsed,
\* truncated, in both directions.
C1_RateAfterTenthOfSecond ==
    [][(IsObservation /\ ElapsedMs > MIN_ELAPSED_MS
            /\ Reported.total_rx >= last_network_rx
            /\ Reported.total_tx >= last_network_tx)
        => (/\ RateIs(Reported.total_rx, last_network_rx, Reported.rx_speed)
            /\ RateIs(Reported.total_tx, last_network_tx, Reported.tx_speed))]_vars

\* an accepted observation that reported a rate which is not a whole multiple of
\* the byte difference (elapsed 150 ms) has happened
C1_Witness ==
    \E i \in DOMAIN reports :
        /\ reports[i].rx_speed > 0
        /\ reports[i].tx_speed > 0
        /\ reports[i].at - (IF i = 1 THEN 0 ELSE reports[i - 1].at) = 150

\* C2: an observation less than 0.1 s after the last accepted one reports
\* (0, 0) and leaves last_network_rx, last_network_tx and last_network_time
\* as they were.
C2_TooSoonReportsZeroAndKeepsBaseline ==
    [][(IsObservation /\ ElapsedMs < MIN_ELAPSED_MS)
        => (/\ Reported.rx_speed = 0 /\ Reported.tx_speed = 0
            /\ UNCHANGED <<last_network_rx, last_network_tx, last_network_time>>)]_vars

\* a call came 50 ms after the accepted baseline, saw other totals than the
\* baseline, and the baseline is still the older one
C2_Witness ==
    /\ reports # <<>>
    /\ instant - last_network_time = 50
    /\ reports[Len(reports)].total_rx # last_network_rx
    /\ reports[Len(reports)].total_tx # last_network_tx

BaselineAdvanced ==
    /\ last_network_rx' = Reported.total_rx
    /\ last_network_tx' = Reported.total_tx
    /\ last_network_time' = instant'

ResetReportsZero ==
    /\ Reported.total_rx < last_network_rx => Reported.rx_speed = 0
    /\ Reported.total_tx < last_network_tx => Reported.tx_speed = 0

\* C3 as stated: an observation at least 0.1 s after the last accepted one
\* reports 0 for a direction whose total fell below the baseline, and always
\* advances the baseline to (current, now).
C3_ResetFromTenthOfSecond ==
    [][(IsObservation /\ ElapsedMs >= MIN_ELAPSED_MS)
        => (ResetReportsZero /\ BaselineAdvanced)]_vars

\* one step of the rx sequence 1000, 1500, 400, 900 at 1 s spacing: each total
\* is measured against the total before it, giving 500, 0 (reset), 500
ExampleStep(previous, current, speed) ==
    (last_network_rx = previous /\ Reported.total_rx = current /\ ElapsedMs = 1000)
        => (Reported.rx_speed = speed /\ last_network_rx' = current)

\* C3 amended: an observation more than 0.1 s after the last accepted one
\* reports 0 for a direction whose total fell below the baseline (never an
\* underflowed value), and always advances the baseline to (current, now),
\* reset or not; rx 1000, 1500, 400, 900 at 1 s spacing reports 500, 0, 500.
C3_ResetAfterTenthOfSecond ==
    [][(IsObservation /\ ElapsedMs > MIN_ELAPSED_MS)
        => (/\ ResetReportsZero
            /\ BaselineAdvanced
            /\ ExampleStep(1000, 1500, 500)
            /\ ExampleStep(1500, 400, 0)
            /\ ExampleStep(400, 900, 500))]_vars

\* the example run has happened: baseline 1000, then 1500, 400, 900 one
\* second apart, with the reset in the middle reported as 0
C3_Witness ==
    /\ Len(reports) = 3
    /\ \A i \in 1..3 : reports[i].at = 1000 * i
    /\ <<reports[1].total_rx, reports[2].total_rx, reports[3].total_rx>> = <<1500, 400, 900>>
    /\ <<reports[1].rx_speed, reports[2].rx_speed, reports[3].rx_speed>> = <<500, 0, 500>>
    /\ last_network_rx = 900

(***************************************************************************)
(* Claims about the latency probe                                          *)
(***************************************************************************)
\* a step that is one call of collect
IsCollect == IsObservation /\ snapshot' # snapshot

HostsOf(batch) == [i \in DOMAIN batch.targets |-> batch.targets[i].host]

\* the hosts a cycle that read `custom` sets out to probe, in list order
ExpectedHosts(custom) ==
    IF custom = None
    THEN <<"8.8.8.8", "1.1.1.1">> \o (IF gateway_ip = None THEN <<>> ELSE <<gateway_ip[1]>>)
    ELSE LET with_host == SelectSeq(custom[1], LAMBDA t : t.host # "")
         IN  [i \in DOMAIN with_host |-> with_host[i].host]

\* the value is absent, or the whole batch of one iteration that has published
WholeBatchOfOneCycle(slot) ==
    \/ slot = None
    \/ \E c \in DOMAIN batches :
          /\ slot[1] = batches[c]
          /\ \A i \in DOMAIN slot[1].targets : slot[1].targets[i].cycle = c

\* a step in which the thread publishes its results
Publishes == pc = "replace_results" /\ pc' = "loop"

\* C13: under any interleaving of the ping thread and collect, the value in
\* ping_results, and the value collect read from it, is absent or the
\* complete batch of exactly one finished cycle: every publication replaces
\* the slot by one result per target the cycle set out to probe, all measured
\* by that cycle.
C13_SlotHoldsWholeBatch ==
    /\ [](/\ WholeBatchOfOneCycle(ping_results)
          /\ snapshot # None => WholeBatchOfOneCycle(snapshot[1].ping))
    /\ [][Publishes =>
            /\ ping_results' # None
            /\ HostsOf(ping_results'[1]) = ExpectedHosts(custom_targets)
            /\ \A i \in DOMAIN ping_results'[1].targets :
                   ping_results'[1].targets[i].cycle = cycle]_vars

\* the slot holds the batch of the second cycle, shorter than the batch of the
\* first, which a collect in between has read
C13_Witness ==
    /\ Len(batches) = 2
    /\ ping_results = Some(batches[2])
    /\ Len(batches[2].targets) < Len(batches[1].targets)
    /\ Len(batches[2].targets) > 0
    /\ snapshot # None
    /\ snapshot[1].ping = Some(batches[1])

\* C14: set_ping_targets(list) leaves a cycle in progress as it is; a cycle
\* takes the list that is in the slot when it starts, and publishes results
\* for that list; after an empty list is pushed the slot is as it was at
\* construction, so the next cycle probes the built-in defaults, never zero
\* targets.
C14_TargetsTakeEffectNextCycle ==
    [][/\ \A list \in TargetLists :
            set_ping_targets(list) =>
                /\ UNCHANGED <<pc, custom_targets, target_index, targets, ping_results>>
                /\ ExpectedHosts(custom_ping_targets') =
                       ExpectedHosts(IF list = <<>> THEN None ELSE Some(list))
                /\ list = <<>> => custom_ping_targets' = None
       /\ (pc = "clone_targets" /\ pc' = "ping") => custom_targets' = custom_ping_targets
       /\ Publishes =>
            /\ HostsOf(ping_results'[1]) = ExpectedHosts(custom_targets)
            /\ custom_targets = None => Len(ping_results'[1].targets) >= 2]_vars

\* the first cycle probed a pushed list; an empty list was pushed, the second
\* cycle is probing the defaults, and a list pushed since waits in the slot
C14_Witness ==
    /\ Len(batches) = 1
    /\ HostsOf(batches[1]) = <<"10.0.0.1">>
    /\ cycle = 2
    /\ pc = "ping"
    /\ custom_targets = None
    /\ targets # <<>>
    /\ targets[1].host = "8.8.8.8"
    /\ custom_ping_targets # None

\* C15: while a probe cycle is running collect can return, and the ping of
\* the snapshot it returns is absent if no cycle has published yet and
\* otherwise the batch of the cycle that published last.
C15_CollectNeverWaitsForProbe ==
    /\ []((pc = "ping" /\ Len(reports) < MaxReports) => ENABLED Collect)
    /\ [][IsCollect =>
            /\ snapshot' # None
            /\ snapshot'[1].ping =
                 (IF batches = <<>> THEN None ELSE Some(batches[Len(batches)]))]_vars

\* collect has returned the batch of the first cycle twice while the second
\* cycle, not yet done, is pinging
C15_Witness ==
    /\ cycle = 2
    /\ pc = "ping"
    /\ target_index = 2
    /\ Len(batches) = 1
    /\ Len(reports) = 3
    /\ snapshot # None
    /\ snapshot[1].ping = Some(batches[1])

\* C20: the ping thread holds the guard of custom_ping_targets only while it
\* clones the list and the guard of ping_results only while it replaces the
\* value, never while a ping command runs: as long as it is pinging, both
\* Mutexes are free, and set_ping_targets and collect can run.
C20_NoGuardHeldAcrossPing ==
    /\ custom_targets_lock = "probe" => pc = "clone_targets"
    /\ ping_results_lock = "probe" => pc = "replace_results"
    /\ pc = "ping" =>
          /\ custom_targets_lock = "free"
          /\ ping_results_lock = "free"
          /\ ENABLED SetPingTargets
          /\ Len(reports) < MaxReports => ENABLED Collect

\* during the pings of the first cycle, which read no custom list, a list has
\* been pushed and collect has returned a snapshot without ping
C20_Witness ==
    /\ cycle = 1
    /\ pc = "ping"
    /\ target_index = 2
    /\ custom_targets = None
    /\ custom_ping_targets # None
    /\ snapshot # None
    /\ snapshot[1].ping = None

(***************************************************************************)
(* Claims about the registry, the broadcaster and the ingestion flows      *)
(***************************************************************************)
HasEntry(server_id) == server_id \in DOMAIN agent_connections

\* what send owes its caller: a failure for a server_id without entry that
\* differs from the failure of a channel that is full or closed, which
\* removes the entry, and a command queued otherwise
SendContract ==
    \A server_id \in Servers, command \in Commands :
        send(server_id, command) =>
            IF ~HasEntry(server_id)
            THEN /\ send_result' \notin {"Ok", "ChannelFailed"}
                 /\ agent_connections' = agent_connections
            ELSE IF \/ agent_connections[server_id].closed
                    \/ Len(agent_connections[server_id].queue) = ChannelCapacity
            THEN /\ send_result' \notin {"Ok", "NotConnected"}
                 /\ DOMAIN agent_connections' = DOMAIN agent_connections \ {server_id}
                 /\ \A other \in DOMAIN agent_connections' :
                        agent_connections'[other] = agent_connections[other]
            ELSE /\ send_result' = "Ok"
                 /\ agent_connections'[server_id].queue =
                        Append(agent_connections[server_id].queue, command)

SentFromTo(a, b) == [i \in 1..(b - a + 1) |-> [at |-> a + i - 1, message |-> metrics_tx[a + i - 1]]]

\* C18: publish completes whoever the subscribers are and whatever they have
\* read, and leaves every subscriber as it is; a subscriber with a message to
\* read can always read on; a subscriber that never lagged has received every
\* message sent since it subscribed, in order; one that lagged beyond the
\* buffer loses exactly its oldest undelivered messages and goes on with the
\* oldest message the channel still holds.
C18_PublishNeverWaits ==
    /\ [](/\ Len(metrics_tx) < MaxPublished => ENABLED Publish
          /\ \A viewer \in DOMAIN subscribers :
                LET receiver == subscribers[viewer]
                IN  /\ receiver.next <= Len(metrics_tx) => ENABLED viewer_recv(viewer)
                    /\ receiver.missed = 0 =>
                          receiver.received = SentFromTo(receiver.since, receiver.next - 1)
                    /\ Len(receiver.received) + receiver.missed
                          = receiver.next - receiver.since)
    /\ [][/\ \A message \in Messages :
                publish(message) =>
                    /\ subscribers' = subscribers
                    /\ metrics_tx' = Append(metrics_tx, message)
          /\ \A viewer \in Viewers :
                viewer_recv(viewer) =>
                    /\ metrics_tx' = metrics_tx
                    /\ \A other \in DOMAIN subscribers \ {viewer} :
                           subscribers'[other] = subscribers[other]
                    /\ subscribers[viewer].next <= Len(metrics_tx) - BroadcastCapacity =>
                           /\ subscribers'[viewer].next = Len(metrics_tx) - BroadcastCapacity + 1
                           /\ subscribers'[viewer].received = subscribers[viewer].received]_vars

\* four messages were sent to a viewer that never read and to one that did:
\* the first has then lost its two oldest messages and read the third, the
\* other has read all four
C18_Witness ==
    /\ Len(metrics_tx) = 4
    /\ DOMAIN subscribers = Viewers
    /\ subscribers["v1"].since = 1
    /\ subscribers["v1"].missed = 2
    /\ Len(subscribers["v1"].received) = 1
    /\ subscribers["v1"].received[1].at = 3
    /\ subscribers["v2"].since = 1
    /\ subscribers["v2"].missed = 0
    /\ Len(subscribers["v2"].received) = 4

\* the tables of the database
TablesChange == tables' # tables

Pushed == Len(targets') = Len(targets) + 1

LastPushed == targets'[Len(targets')]

\* C21: the status of a probe result is one of ok, timeout and error; it is
\* error exactly when the ping command could not be run, timeout exactly when
\* the command ran and the packet loss is 100% or more, ok in every other case
C21_StatusClassifiesTheProbe ==
    [][\A output \in AllPingOutputs :
          (probe_ping(output) /\ Pushed) =>
             /\ LastPushed.status \in {"ok", "timeout", "error"}
             /\ (LastPushed.status = "error") <=> ~output.ran
             /\ (LastPushed.status = "timeout") <=>
                   (output.ran /\ LastPushed.packet_loss >= 100)
             /\ (LastPushed.status = "ok") <=>
                   (output.ran /\ LastPushed.packet_loss < 100)]_vars

\* a published batch with a result of each status
C21_Witness ==
    /\ ping_results # None
    /\ \A s \in {"ok", "timeout", "error"} :
          \E i \in 1..Len(ping_results[1].targets) :
             ping_results[1].targets[i].status = s

\* the ping command of this output has failed: it could not be run, or every
\* packet was lost
Failed(output) == ~output.ran \/ ping_host(output).packet_loss >= 100

\* a turn of the for loop of collect_ping_with_targets
LoopTurn == pc = "ping" /\ pc' = "ping"

\* C22: a failed probe never aborts the cycle: whatever the ping command
\* gives, the loop goes on to the next target and the batch is published; a
\* turn of the loop leaves the results of the other targets as they are and a
\* failed probe gives its own target the status error or timeout; the batch
\* published holds one result for every target the cycle set out to probe, in
\* the order of the list
C22_FailureNeverAbortsTheCycle ==
    /\ [](/\ (pc = "ping" /\ target_index <= Len(target_list_of(custom_targets)))
                => \A output \in AllPingOutputs : ENABLED probe_ping(output)
          /\ (pc = "ping" /\ target_index > Len(target_list_of(custom_targets)))
                => ENABLED probe_lock_results
          /\ pc = "replace_results" => ENABLED probe_replace_results)
    /\ [][LoopTurn =>
            /\ target_index' = target_index + 1
            /\ SubSeq(targets', 1, Len(targets)) = targets
            /\ Len(targets') <= Len(targets) + 1
            /\ \A output \in AllPingOutputs :
                  (probe_ping(output) /\ Pushed /\ Failed(output)) =>
                      LastPushed.status \in {"error", "timeout"}]_vars
    /\ [][Publishes =>
            /\ ping_results' # None
            /\ HostsOf(ping_results'[1]) = ExpectedHosts(custom_targets)]_vars

\* a batch of the three default targets is published, the first of which
\* could not be pinged and the second of which lost every packet
C22_Witness ==
    /\ ping_results # None
    /\ Len(ping_results[1].targets) = 3
    /\ ping_results[1].targets[1].status = "error"
    /\ ping_results[1].targets[2].status = "timeout"
    /\ ping_results[1].targets[3].status = "ok"

\* C23: a cycle probes exactly the custom list when one is configured, and
\* otherwise the default list with the gateway entry at the detected gateway
\* address, or without that entry when no gateway is known; a cycle with a
\* list configured probes at least one target
C23_CycleProbesItsTargetList ==
    [][Publishes =>
         LET probed == ping_results'[1].targets
         IN  IF custom_targets # None
             THEN /\ Len(probed) = Len(custom_targets[1])
                  /\ \A i \in DOMAIN probed :
                        /\ probed[i].name = custom_targets[1][i].name
                        /\ probed[i].host = custom_targets[1][i].host
                  /\ Len(probed) >= 1
             ELSE /\ Len(probed) = IF gateway_ip = None THEN 2 ELSE 3
                  /\ \A i \in DOMAIN probed :
                        /\ probed[i].name = DEFAULT_PING_TARGETS[i].name
                        /\ probed[i].host =
                              IF DEFAULT_PING_TARGETS[i].host = ""
                              THEN gateway_ip[1]
                              ELSE DEFAULT_PING_TARGETS[i].host]_vars

(***************************************************************************)
(* Claims about the interfaces behind the totals                           *)
(***************************************************************************)
\* C24: virtual and loopback interfaces never contribute to the totals the
\* rate tracker uses: the baseline stored at construction and every total
\* seen by collect are sums over the physical interfaces only, so that the
\* first speed reported after start-up is the difference of the physical
\* totals divided by the time elapsed
C24_TotalsArePhysicalOnly ==
    [][IsObservation =>
         /\ Reported.total_rx = physical_totals(networks')[1]
         /\ Reported.total_tx = physical_totals(networks')[2]
         /\ reports = <<>> =>
               /\ last_network_rx = physical_totals(networks)[1]
               /\ last_network_tx = physical_totals(networks)[2]
               /\ (enough_time_passed(ElapsedMs)
                     /\ physical_totals(networks')[1] >= physical_totals(networks)[1])
                    => Reported.rx_speed =
                          per_second(physical_totals(networks')[1]
                                       - physical_totals(networks)[1], ElapsedMs)
               /\ (enough_time_passed(ElapsedMs)
                     /\ physical_totals(networks')[2] >= physical_totals(networks)[2])
                    => Reported.tx_speed =
                          per_second(physical_totals(networks')[2]
                                       - physical_totals(networks)[2], ElapsedMs)]_vars

(***************************************************************************)
(* Claims about the tiers under the scheduled maintenance                  *)
(***************************************************************************)
\* the raw rows a step deletes
Evicted == {r \in Range(metrics_raw) : r \notin Range(metrics_raw')}

\* C25: with aggregate_hourly run at least once in every clock hour, a raw
\* row of hour H is in the hourly row (server_id, H) before cleanup_old_data
\* can delete it: when a raw row is deleted, the hourly tier holds the row of
\* its server and hour, which summarises the raw rows of that server and hour
C25_NoSampleLostFromHourlyTier ==
    [][\A r \in Evicted :
          LET H == InstantOf(r.timestamp)
              rows == SelectSeq(metrics_raw,
                          LAMBDA q : q.server_id = r.server_id /\ InHour(q.timestamp, H))
              kept == RowsOf(metrics_hourly, r.server_id, "hour_start",
                             format_hour_start(H))
          IN  Len(kept) = 1 /\ SummarisesRaw(kept[1], rows)]_vars

\* the rows of a table whose time key is not `key`
RowsOfOtherKeys(table, time_key, key) == SelectSeq(table, LAMBDA r : r[time_key] # key)

\* C26: aggregate_hourly at time t writes only hourly rows of the clock hour
\* of t - 1 h: whether it succeeds or fails it leaves the raw and the daily
\* rows as they are, and in whatever state it runs the hourly rows of other
\* hours stay as they are, no row of the target hour is deleted, and with no
\* raw row in the target hour the hourly tier is left exactly as it is
C26_HourlyRollupFrame ==
    /\ [](LET target == format_hour_start(minus_hours(now, 1))
              after == aggregated_hourly(metrics_raw, metrics_hourly, now)
          IN  /\ \A r \in Range(after) \ Range(metrics_hourly) : r.hour_start = target
              /\ RowsOfOtherKeys(after, "hour_start", target)
                    = RowsOfOtherKeys(metrics_hourly, "hour_start", target)
              /\ \A r \in Range(metrics_hourly) :
                    \E q \in Range(after) :
                        q.server_id = r.server_id /\ q.hour_start = r.hour_start
              /\ (\A r \in Range(metrics_raw) :
                     ~InHour(r.timestamp, minus_hours(now, 1))) => after = metrics_hourly)
    /\ [][\A outcome \in Outcomes :
             aggregate_hourly(outcome) =>
                /\ UNCHANGED <<metrics_raw, metrics_daily>>
                /\ metrics_hourly' \in
                      {metrics_hourly,
                       aggregated_hourly(metrics_raw, metrics_hourly, now)}]_vars

\* a run has just written the row of its target hour next to the row of an
\* earlier hour
C26_Witness ==
    /\ result = "ok"
    /\ hourly_select(metrics_raw, now) # <<>>
    /\ Range(hourly_select(metrics_raw, now)) \subseteq Range(metrics_hourly)
    /\ \E r \in Range(metrics_hourly) :
          r.hour_start # format_hour_start(minus_hours(now, 1))

\* C27: in every reachable state every daily row has 0 < uptime_percent <= 100,
\* the hourly tier holding at most one row per server_id and hour of the day;
\* and the sample_count a run of aggregate_daily writes is the sum of the
\* sample_count of the hourly rows of that server_id and day
C27_DailyRowWithinBounds ==
    /\ [](/\ \A d \in Range(metrics_daily) :
                /\ d.uptime_percent[1] > 0
                /\ d.uptime_percent[1] <= 100 * d.uptime_percent[2]
          /\ OnePerKey(metrics_hourly, "hour_start")
          /\ \A h \in Range(metrics_hourly) :
                /\ h.hour_start[3] \in 0..(HOURS_PER_DAY - 1)
                /\ h.hour_start = format_hour_start(InstantOf(h.hour_start)))
    /\ [][\A outcome \in Outcomes :
             aggregate_daily(outcome) =>
                \A d \in Range(metrics_daily') \ Range(metrics_daily) :
                    LET rows == SelectSeq(metrics_hourly,
                                   LAMBDA r : /\ r.server_id = d.server_id
                                              /\ sqlite_date(r.hour_start) = d.date)
                    IN  /\ rows # <<>>
                        /\ Len(rows) <= HOURS_PER_DAY
                        /\ d.sample_count = SumOf(Column(rows, "sample_count"))]_vars

\* the daily tier holds a row built from two hourly rows of one day
C27_Witness ==
    \E d \in Range(metrics_daily) :
        LET rows == SelectSeq(metrics_hourly,
                       LAMBDA r : r.server_id = d.server_id
                                  /\ sqlite_date(r.hour_start) = d.date)
        IN  /\ Len(rows) = 2
            /\ d.uptime_percent = Frac(200, HOURS_PER_DAY)
            /\ d.sample_count = rows[1].sample_count + rows[2].sample_count

\* the rows among `rows` that have a value in column c
WithValue(rows, c) == SelectSeq(rows, LAMBDA r : r[c] # NULL)

\* C28: the ping averages are carried up the tiers: the ping_avg of an hourly
\* row that aggregate_hourly writes is the average of ping_ms over the raw
\* rows of its server_id and hour that have one, the ping_avg of a daily row
\* that aggregate_daily writes is the average of the ping_avg of the hourly
\* rows of its day that have one, and no step turns a ping_avg stored under a
\* key into NULL
C28_PingAveragesCarriedUp ==
    [][/\ aggregate_hourly("ok") =>
             \A h \in Range(metrics_hourly') \ Range(metrics_hourly) :
                 LET rows == WithValue(
                                SelectSeq(metrics_raw,
                                    LAMBDA r : /\ r.server_id = h.server_id
                                               /\ sqlite_strftime_hour(r.timestamp)
                                                     = h.hour_start),
                                "ping_ms")
                 IN  rows # <<>> => h.ping_avg = FracAvgOf(Column(rows, "ping_ms"))
       /\ aggregate_daily("ok") =>
             \A d \in Range(metrics_daily') \ Range(metrics_daily) :
                 LET rows == WithValue(
                                SelectSeq(metrics_hourly,
                                    LAMBDA r : /\ r.server_id = d.server_id
                                               /\ sqlite_date(r.hour_start) = d.date),
                                "ping_avg")
                 IN  rows # <<>> => d.ping_avg = FracAvgOf(Column(rows, "ping_avg"))
       /\ \A h \in Range(metrics_hourly), q \in Range(metrics_hourly') :
             (q.server_id = h.server_id /\ q.hour_start = h.hour_start
                /\ h.ping_avg # NULL) => q.ping_avg # NULL
       /\ \A d \in Range(metrics_daily), q \in Range(metrics_daily') :
             (q.server_id = d.server_id /\ q.date = d.date
                /\ d.ping_avg # NULL) => q.ping_avg # NULL]_vars

(***************************************************************************)
(* Claims about the two directions of the rate tracker                     *)
(***************************************************************************)
\* C29: the rx and the tx direction are treated independently: on an accepted
\* observation (more than 0.1 s after the last accepted one) a direction
\* whose total fell below its baseline reports 0 and a direction whose total
\* did not reports (current - previous) / elapsed, whatever the other
\* direction did; both baselines and the time advance together
C29_DirectionsAreIndependent ==
    [][(IsObservation /\ enough_time_passed(ElapsedMs)) =>
          /\ Reported.total_rx < last_network_rx => Reported.rx_speed = 0
          /\ Reported.total_rx >= last_network_rx =>
                RateIs(Reported.total_rx, last_network_rx, Reported.rx_speed)
          /\ Reported.total_tx < last_network_tx => Reported.tx_speed = 0
          /\ Reported.total_tx >= last_network_tx =>
                RateIs(Reported.total_tx, last_network_tx, Reported.tx_speed)
          /\ BaselineAdvanced]_vars

\* the last observation, accepted, saw the rx total fall and the tx total
\* rise since the accepted observation before it: it reported 0 for rx and
\* a speed for tx, and both baselines are now its totals
C29_Witness ==
    /\ Len(reports) >= 2
    /\ LET last == reports[Len(reports)]
           before == reports[Len(reports) - 1]
       IN  /\ before.at = last.at - 1000
           /\ before.rx_speed > 0
           /\ last.total_rx < before.total_rx
           /\ last.total_tx > before.total_tx
           /\ last.rx_speed = 0
           /\ last.tx_speed = last.total_tx - before.total_tx
           /\ last_network_rx = last.total_rx
           /\ last_network_tx = last.total_tx
           /\ last_network_time = last.at

====
